---- MODULE Spec2Model ----
(***************************************************************************)
(* Model of the template repository: scripts/setup.py (the one-shot        *)
(* template instantiator: main, get_user_input, setup_project,             *)
(* replace_in_file) and src/example (Block, validate_block_gas).           *)
(*                                                                         *)
(* Text is modelled as TLA+ strings with Python's own string operations    *)
(* (str.replace, str.strip, str.lower, re.sub, the `in` test) written out  *)
(* character by character.  The file system is a function from the target  *)
(* paths to files; a file is absent or present, and a present file may be  *)
(* unreadable (read_text raises), read-only (write_text raises and leaves   *)
(* the file alone) or on a full disk (write_text truncates and raises).    *)
(* The operator's terminal is the sequence of events the process will      *)
(* read: lines, or a keyboard interrupt; an exhausted terminal is EOF.     *)
(***************************************************************************)
EXTENDS Integers, Sequences, FiniteSets, TLC

VARIABLES
    fs,       \* path -> [exists, io, content]: the working directory's files
    cwd,      \* Path.cwd().name
    now,      \* datetime.now().year
    pc,       \* "shell" (no process), "main", a configuration key, "confirm", "setup"
    stdin,    \* the events the running process has still to read
    config,   \* the config dict of the running (or last) process, a function on
              \* the keys resolved so far
    out,      \* what the running (or last) process printed: <<tag, text>> lines
    exit,     \* exit status of the last process, NoExit while none has ended
    runs,     \* number of invocations started
    fs0,      \* history: fs when the running (or last) process was started
    seen,     \* history: the events the running (or last) process has read
    setups,   \* history: number of invocations that called setup_project
    prior,    \* history: setups when the running (or last) process was started
    block,    \* the Block under validation, NoBlock while none was built
    valid     \* validate_block_gas's last result, NoResult while none

vars == <<fs, cwd, now, pc, stdin, config, out, exit, runs, fs0, seen, setups,
          prior, block, valid>>

scriptVars == <<fs, cwd, now, pc, stdin, config, out, exit, runs, fs0, seen, setups,
                prior>>
gasVars == <<block, valid>>

-----------------------------------------------------------------------------
(* Bounds *)

MaxRuns == 2

MaxGas == 5

-----------------------------------------------------------------------------
(* Python string operations *)

Char(s, i) == SubSeq(s, i, i)

\* `sub in s`
Contains(s, sub) ==
    \E i \in 1..(Len(s) - Len(sub) + 1) : SubSeq(s, i, i + Len(sub) - 1) = sub

\* the positions at which sub occurs in s
Occurrences(s, sub) ==
    {i \in 1..(Len(s) - Len(sub) + 1) : SubSeq(s, i, i + Len(sub) - 1) = sub}

Min(S) == CHOOSE i \in S : \A j \in S : i <= j

\* str.replace(old, new): every non-overlapping occurrence, left to right
StrReplaceFirstOnly(s, old, new) ==
    IF Occurrences(s, old) = {} THEN s
    ELSE LET i == Min(Occurrences(s, old))
         IN  SubSeq(s, 1, i - 1) \o new \o SubSeq(s, i + Len(old), Len(s))

RECURSIVE StrReplace(_, _, _)
StrReplace(s, old, new) ==
    IF old = ""
    THEN (IF s = "" THEN new ELSE new \o Head(s) \o StrReplace(Tail(s), old, new))
    ELSE IF Occurrences(s, old) = {} THEN s
    ELSE LET i == Min(Occurrences(s, old))
         IN  SubSeq(s, 1, i - 1) \o new
                \o StrReplace(SubSeq(s, i + Len(old), Len(s)), old, new)

Whitespace == {" ", "\t", "\n", "\r", "\f"}

RECURSIVE LStrip(_)
LStrip(s) == IF s # "" /\ Head(s) \in Whitespace THEN LStrip(Tail(s)) ELSE s

RECURSIVE RStrip(_)
RStrip(s) ==
    IF s # "" /\ Char(s, Len(s)) \in Whitespace
    THEN RStrip(SubSeq(s, 1, Len(s) - 1))
    ELSE s

\* str.strip(), over the whitespace a TLA+ string can hold
StrStrip(s) == RStrip(LStrip(s))

UpperCase == "ABCDEFGHIJKLMNOPQRSTUVWXYZ"
LowerCase == "abcdefghijklmnopqrstuvwxyz"
Digits == "0123456789"

LowerChar(c) ==
    IF \E i \in 1..Len(UpperCase) : Char(UpperCase, i) = c
    THEN Char(LowerCase, CHOOSE i \in 1..Len(UpperCase) : Char(UpperCase, i) = c)
    ELSE c

\* str.lower()
RECURSIVE StrLower(_)
StrLower(s) == IF s = "" THEN "" ELSE LowerChar(Head(s)) \o StrLower(Tail(s))

\* the class [a-zA-Z0-9_-]
InNameClass(c) ==
    \/ \E i \in 1..Len(LowerCase) : Char(LowerCase, i) = c
    \/ \E i \in 1..Len(UpperCase) : Char(UpperCase, i) = c
    \/ \E i \in 1..Len(Digits) : Char(Digits, i) = c
    \/ c \in {"_", "-"}

\* re.sub(r'[^a-zA-Z0-9_-]', '-', s)
RECURSIVE Sanitize(_)
Sanitize(s) ==
    IF s = "" THEN ""
    ELSE (IF InNameClass(Head(s)) THEN Head(s) ELSE "-") \o Sanitize(Tail(s))

\* str(n) for n >= 0
RECURSIVE IntToStr(_)
IntToStr(n) ==
    IF n < 10 THEN Char(Digits, n + 1)
    ELSE IntToStr(n \div 10) \o Char(Digits, (n % 10) + 1)

-----------------------------------------------------------------------------
(* The terminal *)

Line(text) == [kind |-> "line", text |-> text]
SigInt == [kind |-> "sigint", text |-> ""]

NoExit == 0 - 1

-----------------------------------------------------------------------------
(* get_user_input *)

KeyOrder == <<"project_name", "package_name", "github_org", "author_name",
              "author_email", "year">>

Keys == {KeyOrder[i] : i \in 1..Len(KeyOrder)}

KeyIndex(k) == CHOOSE i \in 1..Len(KeyOrder) : KeyOrder[i] = k

PromptLabel(k) ==
    CASE k = "project_name" -> "Project name"
      [] k = "package_name" -> "Package name"
      [] k = "github_org" -> "GitHub organization or username"
      [] k = "author_name" -> "Author name"
      [] k = "author_email" -> "Author email"
      [] k = "year" -> "Copyright year"

\* the default each prompt offers, given what is resolved so far
DefaultValueStatic(k, cfg, dir, year) ==
    CASE k = "project_name" -> dir
      [] k = "package_name" -> Sanitize(StrLower(dir))
      [] k = "github_org" -> "ethereum"
      [] k = "author_name" -> "Ethereum Foundation"
      [] k = "author_email" -> "security@ethereum.org"
      [] k = "year" -> IntToStr(year)

DefaultValue(k, cfg, dir, year) ==
    CASE k = "project_name" -> dir
      [] k = "package_name" -> Sanitize(StrLower(cfg["project_name"]))
      [] k = "github_org" -> "ethereum"
      [] k = "author_name" -> "Ethereum Foundation"
      [] k = "author_email" -> "security@ethereum.org"
      [] k = "year" -> IntToStr(year)

\* input(...).strip() or default
Resolve(text, default) == IF StrStrip(text) # "" THEN StrStrip(text) ELSE default

NoConfig == <<>>

\* confirm in ['', 'y', 'yes']
AffirmativeUnlessNo(text) == StrLower(StrStrip(text)) \notin {"n", "no"}

Affirmative(text) == StrLower(StrStrip(text)) \in {"", "y", "yes"}

-----------------------------------------------------------------------------
(* The file system *)

File(content) == [exists |-> TRUE, io |-> "ok", content |-> content]
Absent == [exists |-> FALSE, io |-> "ok", content |-> ""]
Faulty(content, io) == [exists |-> TRUE, io |-> io, content |-> content]

IoModes == {"ok", "unreadable", "readonly", "nospace"}

Pyproject == "pyproject.toml"

FilesToUpdate == <<"pyproject.toml", "mkdocs.yml", "README.md", "LICENSE",
                   "docs/index.md", ".github/ISSUE_TEMPLATE/bug_report.md",
                   ".github/ISSUE_TEMPLATE/feature_request.md">>

UrlFiles == <<"README.md", "docs/index.md">>

Paths == {FilesToUpdate[i] : i \in 1..Len(FilesToUpdate)}

Marker == "{PACKAGE_NAME}"

Sentinel == "<repository-url>"

-----------------------------------------------------------------------------
(* setup_project and replace_in_file *)

RepoSlug(cfg) == cfg["github_org"] \o "/" \o cfg["package_name"]

RepoUrl(cfg) == "https://github.com/" \o cfg["github_org"] \o "/" \o cfg["package_name"]

\* the replacements dict, in insertion order
Replacements(cfg) ==
    << <<"{PROJECT_NAME}", cfg["project_name"]>>,
       <<"{PACKAGE_NAME}", cfg["package_name"]>>,
       <<"{GITHUB_ORG}", cfg["github_org"]>>,
       <<"{AUTHOR_NAME}", cfg["author_name"]>>,
       <<"{AUTHOR_EMAIL}", cfg["author_email"]>>,
       <<"{YEAR}", cfg["year"]>>,
       <<"ethereum-protocol-specs", cfg["package_name"]>>,
       <<"ethereum-specs", cfg["package_name"]>>,
       <<"Your Name", cfg["author_name"]>>,
       <<"your.email@example.com", cfg["author_email"]>>,
       <<"Ethereum Foundation", cfg["author_name"]>>,
       <<"2025", cfg["year"]>>,
       <<"2024", cfg["year"]>>,
       <<"ethereum/ethereum-protocol-specs", RepoSlug(cfg)>>,
       <<"https://github.com/ethereum/...", RepoUrl(cfg)>> >>

\* for old, new in replacements.items(): content = content.replace(old, new)
RECURSIVE ApplyFrom(_, _, _)
ApplyFrom(content, repl, i) ==
    IF i > Len(repl) THEN content
    ELSE ApplyFrom(StrReplace(content, repl[i][1], repl[i][2]), repl, i + 1)

\* replace_in_file: the file afterwards and the line printed
ReplaceInFile(file, repl) ==
    IF file.io = "unreadable" THEN [file |-> file, outcome |-> "error"]
    ELSE IF file.io = "readonly" THEN [file |-> file, outcome |-> "error"]
    ELSE IF file.io = "nospace"
         THEN [file |-> [file EXCEPT !.content = ""], outcome |-> "error"]
    ELSE [file |-> [file EXCEPT !.content = ApplyFrom(file.content, repl, 1)],
          outcome |-> "updated"]

\* one iteration of `for file_path in files_to_update`
ProcessFileCreating(f, path, repl) ==
    IF f[path].exists
    THEN LET r == ReplaceInFile(f[path], repl)
         IN  [fs |-> [f EXCEPT ![path] = r.file], line |-> <<r.outcome, path>>]
    ELSE [fs |-> [f EXCEPT ![path] = File("")], line |-> <<"notfound", path>>]

ProcessFile(f, path, repl) ==
    IF f[path].exists
    THEN LET r == ReplaceInFile(f[path], repl)
         IN  [fs |-> [f EXCEPT ![path] = r.file], line |-> <<r.outcome, path>>]
    ELSE [fs |-> f, line |-> <<"notfound", path>>]

RECURSIVE MainPass(_, _, _, _)
MainPass(f, report, repl, i) ==
    IF i > Len(FilesToUpdate) THEN [fs |-> f, out |-> report]
    ELSE LET r == ProcessFile(f, FilesToUpdate[i], repl)
         IN  MainPass(r.fs, Append(report, r.line), repl, i + 1)

\* the <repository-url> loop, which has no try/except: a failing read or
\* write raises out of setup_project
RECURSIVE UrlPass(_, _, _)
UrlPass(f, cfg, i) ==
    IF i > Len(UrlFiles) THEN [fs |-> f, raised |-> FALSE]
    ELSE LET path == UrlFiles[i]
             file == f[path]
         IN  IF ~file.exists THEN UrlPass(f, cfg, i + 1)
             ELSE IF file.io \in {"unreadable", "readonly"}
                  THEN [fs |-> f, raised |-> TRUE]
             ELSE IF file.io = "nospace"
                  THEN [fs |-> [f EXCEPT ![path].content = ""], raised |-> TRUE]
             ELSE UrlPass([f EXCEPT ![path].content =
                              StrReplace(file.content, Sentinel, RepoUrl(cfg))],
                          cfg, i + 1)

\* setup_project(config): the files afterwards, the lines printed, and
\* whether an exception left the function
SetupProjectResult(f, cfg) ==
    LET m == MainPass(f, <<>>, Replacements(cfg), 1)
        u == UrlPass(m.fs, cfg, 1)
    IN  [fs |-> u.fs,
         out |-> IF u.raised THEN m.out
                 ELSE Append(m.out, <<"complete", cfg["project_name"]>>),
         raised |-> u.raised]

-----------------------------------------------------------------------------
(* main *)

\* '{PACKAGE_NAME}' in pyproject_content
IsTemplateOtherToken(content) == Contains(content, "{PROJECT_NAME}")

IsTemplateAlways(content) == TRUE

IsTemplate(content) == Contains(content, Marker)

\* the process ends: sys.exit(status), or main returns (status 0)
Exits(status, lines) ==
    /\ pc' = "shell"
    /\ exit' = status
    /\ out' = out \o lines
    /\ stdin' = <<>>
    /\ config' = config

\* python scripts/setup.py, the operator's terminal being one of scripts
Invoke(scripts, maxRuns) ==
    /\ pc = "shell"
    /\ runs < maxRuns
    /\ \E s \in scripts : stdin' = s
    /\ pc' = "main"
    /\ runs' = runs + 1
    /\ fs0' = fs
    /\ seen' = <<>>
    /\ out' = <<>>
    /\ exit' = NoExit
    /\ config' = NoConfig
    /\ prior' = setups
    /\ UNCHANGED <<fs, cwd, now, setups, block, valid>>

\* main's two checks of pyproject.toml, before the try block
MainGuard ==
    /\ pc = "main"
    /\ LET p == fs[Pyproject]
       IN  IF ~p.exists THEN Exits(1, << <<"fatal", "pyproject.toml not found">> >>)
           ELSE IF p.io = "unreadable" THEN Exits(1, << <<"traceback", "read_text">> >>)
           ELSE IF ~IsTemplate(p.content)
                THEN Exits(1, << <<"fatal", "already configured">> >>)
           ELSE /\ pc' = KeyOrder[1]
                /\ out' = Append(out, <<"welcome", "">>)
                /\ UNCHANGED <<stdin, config, exit>>
    /\ UNCHANGED <<fs, cwd, now, runs, fs0, seen, setups, prior, block, valid>>

\* one input(...) call of get_user_input, with main's except clauses
Input ==
    /\ pc \in Keys
    /\ LET k == pc
           default == DefaultValue(k, config, cwd, now)
           prompt == <<"prompt", PromptLabel(k) \o " [" \o default \o "]: ">>
       IN  IF stdin = <<>>
           THEN /\ Exits(1, <<prompt, <<"failed", "EOFError">> >>)
                /\ seen' = seen
           ELSE IF Head(stdin).kind = "sigint"
           THEN /\ Exits(0, <<prompt, <<"cancelled", "">> >>)
                /\ seen' = Append(seen, Head(stdin))
           ELSE /\ config' = config @@ (k :> Resolve(Head(stdin).text, default))
                /\ pc' = IF KeyIndex(k) < Len(KeyOrder)
                         THEN KeyOrder[KeyIndex(k) + 1] ELSE "confirm"
                /\ out' = Append(out, prompt)
                /\ stdin' = Tail(stdin)
                /\ seen' = Append(seen, Head(stdin))
                /\ exit' = exit
    /\ UNCHANGED <<fs, cwd, now, runs, fs0, setups, prior, block, valid>>

\* the summary and the confirmation prompt
Confirm ==
    /\ pc = "confirm"
    /\ LET summary == <<"summary", RepoSlug(config)>>
           prompt == <<"prompt", "Proceed with setup? [Y/n]: ">>
       IN  IF stdin = <<>>
           THEN /\ Exits(1, <<summary, prompt, <<"failed", "EOFError">> >>)
                /\ seen' = seen
           ELSE IF Head(stdin).kind = "sigint"
           THEN /\ Exits(0, <<summary, prompt, <<"cancelled", "">> >>)
                /\ seen' = Append(seen, Head(stdin))
           ELSE IF Affirmative(Head(stdin).text)
           THEN /\ pc' = "setup"
                /\ out' = out \o <<summary, prompt>>
                /\ stdin' = Tail(stdin)
                /\ seen' = Append(seen, Head(stdin))
                /\ UNCHANGED <<config, exit>>
           ELSE /\ Exits(0, <<summary, prompt, <<"cancelled", "">> >>)
                /\ seen' = Append(seen, Head(stdin))
    /\ UNCHANGED <<fs, cwd, now, runs, fs0, setups, prior, block, valid>>

\* setup_project(config) and main's return or `except Exception`
SetupProject ==
    /\ pc = "setup"
    /\ LET r == SetupProjectResult(fs, config)
       IN  /\ fs' = r.fs
           /\ IF r.raised
              THEN Exits(1, Append(r.out, <<"failed", "exception">>))
              ELSE Exits(0, r.out)
    /\ setups' = setups + 1
    /\ UNCHANGED <<cwd, now, runs, fs0, seen, prior, block, valid>>

-----------------------------------------------------------------------------
(* src/example: Block and validate_block_gas *)

HashLen == 32

NoBlock == <<>>
NoResult == <<>>

\* Block(...): pydantic's field constraints; parent_hash is kept by its length
BlockIsValid(number, hashLen, gasUsed, gasLimit) ==
    number >= 0 /\ hashLen = HashLen /\ gasUsed >= 0 /\ gasLimit >= 0

validate_block_gas_strict(b) == b.gas_used < b.gas_limit

validate_block_gas(b) == b.gas_used <= b.gas_limit

\* Block(number=..., parent_hash=..., gas_used=..., gas_limit=...)
NewBlock ==
    /\ \E number \in -1..1, hashLen \in {HashLen - 1, HashLen},
          gasUsed \in -1..MaxGas, gasLimit \in -1..MaxGas :
          IF BlockIsValid(number, hashLen, gasUsed, gasLimit)
          THEN block' = << [number |-> number, parent_hash_len |-> hashLen,
                            transactions |-> <<>>, gas_used |-> gasUsed,
                            gas_limit |-> gasLimit] >>
          ELSE block' = block
    /\ valid' = NoResult
    /\ UNCHANGED scriptVars

ValidateBlockGas ==
    /\ block # NoBlock
    /\ valid' = <<validate_block_gas(block[1])>>
    /\ UNCHANGED block
    /\ UNCHANGED scriptVars

-----------------------------------------------------------------------------
(* Terminals, directories and file contents of the checked runs *)

Lines(texts) == [i \in 1..Len(texts) |-> Line(texts[i])]

AllDefaults == Lines(<<"", "", "", "", "", "", "">>)

\* the operator answers, cancels, interrupts at any prompt, or the input ends
ScriptsMain ==
    {AllDefaults,
     Lines(<<" Acme Specs ", "acme-specs", "acme", "Ann", "ann@acme.io", "2030", "y">>),
     Lines(<<"Foo", "bar", "", "", "", "2025", " YES ">>),
     Lines(<<"Foo", "bar", "", "", "", "", "n">>),
     Lines(<<"", "", "", "", "", "", "maybe">>)}
    \cup {Append(SubSeq(AllDefaults, 1, k - 1), SigInt) : k \in 1..7}
    \cup {SubSeq(AllDefaults, 1, k) : k \in {0, 3, 6}}

\* every combination of answers to the six prompts, then a refusal
ScriptsInput ==
    {Lines(<<a, b, c, d, e, f, "n">>) :
        a \in {"", "  My Cool App! ", "Foo_2"},
        b \in {"", " bar\t"},
        c \in {"", "acme"},
        d \in {"", " ", "Ann Lee"},
        e \in {"", "a@b.c"},
        f \in {"", "2030 "}}

ScriptsSubst ==
    {Lines(<<"Foo", "bar", "acme", "Ann", "ann@acme.io", "2030", "y">>),
     Lines(<<"", "acme-specs", "", "", "", "2030", "">>),
     Lines(<<"Foo", "specs", "20", "Ann", "a@b.c", "24", "yes">>),
     Lines(<<"2024", "bar", "acme", "Ann", "a@b.c", "2030", "y">>),
     Lines(<<"Foo", "bar", "ethereum", "Ann", "a@b.c", "2031", "Y">>)}

SubstContents ==
    {"{PROJECT_NAME} {PACKAGE_NAME} {PROJECT_NAME} {PACKAGE_NAME}",
     "(c) 2024-2025 {AUTHOR_NAME} <{AUTHOR_EMAIL}> {YEAR}",
     "{GITHUB_ORG} <repository-url>",
     "20{YEAR}",
     "{GITHUB_ORG}{YEAR}",
     "ethereum-{PACKAGE_NAME}",
     "see ethereum/ethereum-protocol-specs",
     "Your Name <your.email@example.com>, Ethereum Foundation",
     "ethereum-specs at https://github.com/ethereum/...",
     "Your Namethereum-specs",
     "plain text, 2026"}

Template ==
    [p \in Paths |->
        CASE p = "pyproject.toml" -> File("name = \"{PACKAGE_NAME}\"")
          [] p = "mkdocs.yml" -> File("site_name: {PROJECT_NAME}")
          [] p = "README.md" -> File("# {PROJECT_NAME}\nclone <repository-url>")
          [] p = "LICENSE" -> File("(c) 2024 Ethereum Foundation")
          [] p = "docs/index.md" -> File("<repository-url> {GITHUB_ORG}")
          [] p = ".github/ISSUE_TEMPLATE/bug_report.md" -> File("{AUTHOR_EMAIL}")
          [] p = ".github/ISSUE_TEMPLATE/feature_request.md" -> File("{YEAR}")]

\* pyproject.toml as found: fresh, missing, configured, or failing
PyprojectStates ==
    {Template[Pyproject], Absent,
     File("name = \"acme\""),
     File("name = \"acme\" # {PROJECT_NAME}"),
     Faulty(Template[Pyproject].content, "unreadable"),
     Faulty(Template[Pyproject].content, "readonly"),
     Faulty(Template[Pyproject].content, "nospace")}

\* at most one other file is missing or failing
OtherFaults ==
    {Template}
    \cup {[Template EXCEPT ![p] = Absent] : p \in {"mkdocs.yml", "README.md", "docs/index.md"}}
    \cup {[Template EXCEPT ![p] = Faulty(Template[p].content, io)] :
            p \in {"mkdocs.yml", "README.md", "docs/index.md"},
            io \in IoModes \ {"ok"}}

Idle ==
    /\ pc = "shell"
    /\ stdin = <<>>
    /\ config = NoConfig
    /\ out = <<>>
    /\ exit = NoExit
    /\ runs = 0
    /\ fs0 = fs
    /\ seen = <<>>
    /\ setups = 0
    /\ prior = 0
    /\ block = NoBlock
    /\ valid = NoResult

-----------------------------------------------------------------------------
(* Specifications *)

\* the script run, and run again, in one directory
Init ==
    /\ \E f \in OtherFaults, p \in PyprojectStates : fs = [f EXCEPT ![Pyproject] = p]
    /\ cwd = "my-specs"
    /\ now = 2026
    /\ Idle

Next ==
    \/ Invoke(ScriptsMain, MaxRuns)
    \/ MainGuard
    \/ Input
    \/ Confirm
    \/ SetupProject

Spec == Init /\ [][Next]_vars

\* get_user_input over every combination of answers, directory and year
InitInput ==
    /\ fs = Template
    /\ cwd \in {"", "my-specs", "My Cool App!"}
    /\ now \in {2025, 2026}
    /\ Idle

NextInput ==
    \/ Invoke(ScriptsInput, 1)
    \/ MainGuard
    \/ Input
    \/ Confirm

SpecInput == InitInput /\ [][NextInput]_vars

\* the substitution pass over a range of file contents and configurations
InitSubst ==
    /\ \E c \in SubstContents :
          fs = [p \in Paths |->
                   IF p = Pyproject THEN Template[p]
                   ELSE IF p \in {"README.md", "LICENSE"} THEN File(c)
                   ELSE Absent]
    /\ cwd = "my-specs"
    /\ now = 2026
    /\ Idle

NextSubst ==
    \/ Invoke(ScriptsSubst, 1)
    \/ MainGuard
    \/ Input
    \/ Confirm
    \/ SetupProject

SpecSubst == InitSubst /\ [][NextSubst]_vars

\* setup_project(config) called where any subset of the target files is absent
SetupConfigs ==
    {[project_name |-> "Foo", package_name |-> "bar", github_org |-> "acme",
      author_name |-> "Ann", author_email |-> "a@b.c", year |-> "2030"],
     [project_name |-> "my-specs", package_name |-> "my-specs",
      github_org |-> "ethereum", author_name |-> "Ethereum Foundation",
      author_email |-> "security@ethereum.org", year |-> "2026"]}

\* the files as they are when present: all sound, or one of them failing
SetupFaults ==
    {Template,
     [Template EXCEPT !["README.md"] = Faulty(Template["README.md"].content, "unreadable")],
     [Template EXCEPT !["mkdocs.yml"] = Faulty(Template["mkdocs.yml"].content, "readonly")]}

InitSetup ==
    /\ \E missing \in SUBSET Paths, f \in SetupFaults :
          fs = [p \in Paths |-> IF p \in missing THEN Absent ELSE f[p]]
    /\ cwd = "my-specs"
    /\ now = 2026
    /\ pc = "setup"
    /\ stdin = <<>>
    /\ config \in SetupConfigs
    /\ out = <<>>
    /\ exit = NoExit
    /\ runs = 1
    /\ fs0 = fs
    /\ seen = <<>>
    /\ setups = 0
    /\ prior = 0
    /\ block = NoBlock
    /\ valid = NoResult

NextSetup == SetupProject

SpecSetup == InitSetup /\ [][NextSetup]_vars

\* blocks built and validated
InitGas ==
    /\ fs = Template
    /\ cwd = "my-specs"
    /\ now = 2026
    /\ Idle

NextGas ==
    \/ NewBlock
    \/ ValidateBlockGas

SpecGas == InitGas /\ [][NextGas]_vars

-----------------------------------------------------------------------------
(* Properties of main: the guard, the confirmation gate, re-execution *)

Exited == pc = "shell" /\ runs > 0

HasMarker(file) == file.exists /\ Contains(file.content, "{PACKAGE_NAME}")

NoPromptIssued == \A i \in 1..Len(out) : out[i][1] # "prompt"

Interrupted == seen # <<>> /\ seen[Len(seen)].kind = "sigint"

AllAnswered == Len(seen) = Len(KeyOrder) + 1 /\ \A i \in 1..Len(seen) : seen[i].kind = "line"

ConfirmationText == StrLower(StrStrip(seen[Len(seen)].text))

Declined == AllAnswered /\ ConfirmationText \notin {"", "y", "yes"}

\* C1: when pyproject.toml is missing, or present without the literal
\* {PACKAGE_NAME}, the process exits with status 1 at the guard: it has
\* issued no prompt, read no input, and no file differs from what it was
\* when the process started.
C1_PreconditionRefusal ==
    (runs > 0 /\ pc # "main" /\ ~HasMarker(fs0[Pyproject]))
        => (pc = "shell" /\ exit = 1 /\ seen = <<>> /\ NoPromptIssued /\ fs = fs0)

\* a run refused because pyproject.toml is there but holds no marker
C1_Witness ==
    /\ Exited
    /\ fs0[Pyproject].exists
    /\ fs0[Pyproject].io = "ok"
    /\ ~Contains(fs0[Pyproject].content, "{PACKAGE_NAME}")
    /\ exit = 1

\* C2: a file differs from what it was at process start only after all six
\* values were read and the confirmation was '', 'y' or 'yes' (trimmed,
\* lowercased); a run interrupted at a prompt, or confirmed with anything
\* else, has ended with status 0 and every file as it was.
C2_ConfirmationGate ==
    /\ fs # fs0 => (AllAnswered /\ ConfirmationText \in {"", "y", "yes"})
    /\ (Interrupted \/ Declined) => (pc = "shell" /\ exit = 0 /\ fs = fs0)

\* a run interrupted at the fourth prompt, after three values were collected
C2_Witness ==
    /\ Exited
    /\ Interrupted
    /\ Len(seen) = 4
    /\ exit = 0
    /\ fs = fs0

\* C3 as stated: once an invocation has called setup_project, every later
\* invocation is refused at the guard with status 1 and changes no file, so
\* setup_project runs at most once.
C3_RefusedAfterAnySetup ==
    /\ (prior >= 1 /\ pc # "main")
          => (pc = "shell" /\ exit = 1 /\ seen = <<>> /\ fs = fs0)
    /\ setups <= 1

\* C3 as amended: once setup_project has run and pyproject.toml holds no
\* {PACKAGE_NAME}, no later step changes a file or calls setup_project
\* again, and every process that ends from then on ends with status 1.
C3_OneWayGate ==
    [][(setups >= 1 /\ ~HasMarker(fs[Pyproject]))
          => (/\ fs' = fs
              /\ setups' = setups
              /\ (pc # "shell" /\ pc' = "shell") => exit' = 1)]_vars

\* a second invocation refused after the first one's pass removed the marker
C3_Witness ==
    /\ Exited
    /\ prior >= 1
    /\ ~HasMarker(fs[Pyproject])
    /\ exit = 1
    /\ fs = fs0

\* C4: a target file that cannot be read or written does not stop the run:
\* setup_project still handles every other file, the <repository-url> pass
\* included, and the process does not end with status 1.
C4_FaultIsolation ==
    (Exited /\ setups > prior)
        => /\ exit = 0
           /\ \A i \in 1..Len(UrlFiles) :
                 (fs[UrlFiles[i]].exists /\ fs[UrlFiles[i]].io = "ok")
                     => ~Contains(fs[UrlFiles[i]].content, Sentinel)

-----------------------------------------------------------------------------
(* Properties of setup_project's loop over the target files *)

Tokens == {"{PROJECT_NAME}", "{PACKAGE_NAME}", "{GITHUB_ORG}", "{AUTHOR_NAME}",
           "{AUTHOR_EMAIL}", "{YEAR}"}

TokenFree(content) == \A t \in Tokens : ~Contains(content, t)

SetupReturned == Exited /\ setups > prior

\* the lines setup_project's first loop printed
Report == [i \in 1..Len(FilesToUpdate) |-> out[Len(out) - Len(FilesToUpdate) - 1 + i]]

\* C5: whichever target files are absent, setup_project reports each of
\* them as not found and leaves it absent, and still handles every file
\* that is present, in list order: each is reported (updated when it can be
\* read and written, and then holds no placeholder afterwards); absent files
\* raise nothing, so with the present files sound the run ends with status 0.
C5_MissingSkipped ==
    SetupReturned
        => /\ Len(out) >= Len(FilesToUpdate) + 1
           /\ \A i \in 1..Len(FilesToUpdate) :
                 LET p == FilesToUpdate[i]
                 IN  IF fs0[p].exists
                     THEN /\ Report[i] = <<IF fs0[p].io = "ok" THEN "updated" ELSE "error", p>>
                          /\ fs[p].exists
                          /\ fs0[p].io = "ok" => TokenFree(fs[p].content)
                          /\ (fs0[p].io = "ok" /\ exit = 0)
                                => ~Contains(fs[p].content, Sentinel)
                     ELSE /\ Report[i] = <<"notfound", p>>
                          /\ fs[p] = fs0[p]
           /\ (\A p \in Paths : fs0[p].io = "ok") => exit = 0

\* the pass over a directory without mkdocs.yml and with the six other files
C5_Witness ==
    /\ SetupReturned
    /\ ~fs0["mkdocs.yml"].exists
    /\ ~fs["mkdocs.yml"].exists
    /\ \A p \in Paths \ {"mkdocs.yml"} :
          fs0[p].exists /\ fs0[p].io = "ok" /\ fs[p] # fs0[p]
    /\ exit = 0

-----------------------------------------------------------------------------
(* Properties of get_user_input *)

\* the text between the first and the last character that is not whitespace
Trimmed(x) ==
    LET solid == {i \in 1..Len(x) : Char(x, i) \notin {" ", "\t", "\n", "\r", "\f"}}
    IN  IF solid = {} THEN ""
        ELSE SubSeq(x, CHOOSE i \in solid : \A j \in solid : i <= j,
                       CHOOSE i \in solid : \A j \in solid : i >= j)

\* what one character of the project name becomes in the package name
PackageChar(c) ==
    IF \E i \in 1..26 : Char("ABCDEFGHIJKLMNOPQRSTUVWXYZ", i) = c
    THEN Char("abcdefghijklmnopqrstuvwxyz",
              CHOOSE i \in 1..26 : Char("ABCDEFGHIJKLMNOPQRSTUVWXYZ", i) = c)
    ELSE IF \E i \in 1..38 : Char("abcdefghijklmnopqrstuvwxyz0123456789_-", i) = c
    THEN c
    ELSE "-"

IsPackageDefault(d, project) ==
    /\ Len(d) = Len(project)
    /\ \A i \in 1..Len(d) : Char(d, i) = PackageChar(Char(project, i))

DigitValue(c) == (CHOOSE i \in 1..10 : Char("0123456789", i) = c) - 1

RECURSIVE ParseNat(_)
ParseNat(s) ==
    IF s = "" THEN 0
    ELSE 10 * ParseNat(SubSeq(s, 1, Len(s) - 1)) + DigitValue(Char(s, Len(s)))

IsDefaultFor(k, d) ==
    CASE k = "project_name" -> d = cwd
      [] k = "package_name" -> IsPackageDefault(d, config["project_name"])
      [] k = "github_org" -> d = "ethereum"
      [] k = "author_name" -> d = "Ethereum Foundation"
      [] k = "author_email" -> d = "security@ethereum.org"
      [] k = "year" -> Len(d) = 4 /\ ParseNat(d) = now

\* C7: while and after get_user_input runs, the keys resolved are the
\* first keys in prompt order, one per line read; each holds its trimmed
\* response when that is non-empty and its default otherwise, the
\* package_name default being the resolved project_name lowercased with
\* every character outside [a-zA-Z0-9_-] replaced by one '-'.
C7_Resolution ==
    (pc \in Keys \cup {"confirm"})
        => /\ DOMAIN config = {KeyOrder[i] : i \in 1..Len(seen)}
           /\ \A i \in 1..Len(seen) :
                 LET k == KeyOrder[i]
                     r == Trimmed(seen[i].text)
                 IN  IF r # "" THEN config[k] = r ELSE IsDefaultFor(k, config[k])
           /\ (pc = "confirm" /\ config["project_name"] = "My Cool App!"
                  /\ Trimmed(seen[2].text) = "")
                 => config["package_name"] = "my-cool-app-"

\* the project name typed with surrounding blanks, the package name defaulted
C7_Witness ==
    /\ pc = "confirm"
    /\ cwd = "my-specs"
    /\ seen[1].text = "  My Cool App! "
    /\ seen[2].text = ""
    /\ config["project_name"] = "My Cool App!"
    /\ config["package_name"] = "my-cool-app-"
    /\ seen[4].text = " "
    /\ config["author_name"] = "Ethereum Foundation"

\* C8: when get_user_input has returned, each of the six keys holds a
\* non-empty string.
C8_AllNonEmpty ==
    pc = "confirm" => \A k \in Keys : k \in DOMAIN config /\ config[k] # ""

-----------------------------------------------------------------------------
(* Properties of validate_block_gas *)

\* C9: validate_block_gas answers True exactly when the block's gas_used
\* does not exceed its gas_limit (True when they are equal, False when
\* gas_used is gas_limit + 1), and the call leaves the block as it was.
C9_GasRule ==
    [][valid' # NoResult
          => /\ block # NoBlock
             /\ block' = block
             /\ block[1].gas_used >= 0 /\ block[1].gas_limit >= 0
             /\ valid'[1] = (\E slack \in 0..block[1].gas_limit :
                                block[1].gas_used + slack = block[1].gas_limit)
             /\ block[1].gas_used = block[1].gas_limit => valid'[1] = TRUE
             /\ block[1].gas_used = block[1].gas_limit + 1 => valid'[1] = FALSE]_vars

\* a block that uses exactly its limit, found valid
C9_Witness ==
    /\ block # NoBlock
    /\ valid = <<TRUE>>
    /\ block[1].gas_used = block[1].gas_limit
    /\ block[1].gas_limit > 0

-----------------------------------------------------------------------------
(* Properties of the substitution *)

MatchAt(s, i, p) == i + Len(p) - 1 <= Len(s) /\ SubSeq(s, i, i + Len(p) - 1) = p

\* s with every occurrence of the first k search strings of pairs replaced
\* where it stands, in one pass from the left; each inserted value is
\* wrapped in mark
RECURSIVE InPlace(_, _, _, _)
InPlace(s, pairs, k, mark) ==
    LET hits == {i \in 1..Len(s) : \E j \in 1..k : MatchAt(s, i, pairs[j][1])}
    IN  IF hits = {} THEN s
        ELSE LET i == CHOOSE h \in hits : \A g \in hits : h <= g
                 j == CHOOSE a \in 1..k :
                         /\ MatchAt(s, i, pairs[a][1])
                         /\ \A b \in 1..k : MatchAt(s, i, pairs[b][1]) => a <= b
             IN  SubSeq(s, 1, i - 1) \o mark \o pairs[j][2] \o mark
                    \o InPlace(SubSeq(s, i + Len(pairs[j][1]), Len(s)), pairs, k, mark)

\* the six placeholders and the two literal years, with what each stands for
PlaceholderPairs(cfg) ==
    << <<"{PROJECT_NAME}", cfg["project_name"]>>,
       <<"{PACKAGE_NAME}", cfg["package_name"]>>,
       <<"{GITHUB_ORG}", cfg["github_org"]>>,
       <<"{AUTHOR_NAME}", cfg["author_name"]>>,
       <<"{AUTHOR_EMAIL}", cfg["author_email"]>>,
       <<"{YEAR}", cfg["year"]>>,
       <<"2025", cfg["year"]>>,
       <<"2024", cfg["year"]>> >>

\* the literals of a repository cloned directly
LegacyPairs(cfg) ==
    << <<"ethereum-protocol-specs", cfg["package_name"]>>,
       <<"ethereum-specs", cfg["package_name"]>>,
       <<"Your Name", cfg["author_name"]>>,
       <<"your.email@example.com", cfg["author_email"]>>,
       <<"Ethereum Foundation", cfg["author_name"]>> >>

LateLegacyPairs(cfg) ==
    << <<"ethereum/ethereum-protocol-specs",
         cfg["github_org"] \o "/" \o cfg["package_name"]>>,
       <<"https://github.com/ethereum/...",
         "https://github.com/" \o cfg["github_org"] \o "/" \o cfg["package_name"]>> >>

SentinelPair(cfg) ==
    << <<"<repository-url>",
         "https://github.com/" \o cfg["github_org"] \o "/" \o cfg["package_name"]>> >>

HasUrlPass(p) == p \in {"README.md", "docs/index.md"}

\* the passes a file goes through, in the order they run
PassesOf(p, cfg) ==
    SubSeq(PlaceholderPairs(cfg), 1, 6) \o LegacyPairs(cfg)
        \o SubSeq(PlaceholderPairs(cfg), 7, 8) \o LateLegacyPairs(cfg)
        \o (IF HasUrlPass(p) THEN SentinelPair(cfg) ELSE <<>>)

\* what the claim speaks of: placeholders and years, and the sentinel where it applies
ClaimedOf(p, cfg) ==
    PlaceholderPairs(cfg) \o (IF HasUrlPass(p) THEN SentinelPair(cfg) ELSE <<>>)

SearchStrings(pairs) == {pairs[j][1] : j \in 1..Len(pairs)}

\* no configured value contains a search string
ValuesClean(cfg, pairs) ==
    \A k \in Keys, t \in SearchStrings(pairs) : ~Contains(cfg[k], t)

\* no two occurrences of search strings share a character of s
NoOverlap(s, pairs) ==
    \A a, b \in 1..Len(pairs) :
        \A i \in Occurrences(s, pairs[a][1]), j \in Occurrences(s, pairs[b][1]) :
            (a # b \/ i # j) => (i + Len(pairs[a][1]) <= j \/ j + Len(pairs[b][1]) <= i)

Mark == "|"

\* no pass finds its search string across the edge of a value an earlier
\* pass inserted
NoNewMatch(s, pairs) ==
    \A k \in 1..Len(pairs) :
        Cardinality(Occurrences(InPlace(s, pairs, k - 1, ""), pairs[k][1]))
            = Cardinality(Occurrences(InPlace(s, pairs, k - 1, Mark), pairs[k][1]))

Processed(p) == fs0[p].exists /\ fs0[p].io = "ok" /\ exit = 0

\* C6 as stated: for a file read and written successfully and a
\* configuration whose values contain no search string, the final content is
\* the original with every placeholder and every 2024 and 2025 replaced in
\* place by the configured value and nothing else altered (files holding a
\* legacy literal, whose replacement the claim leaves open, are left out).
C6_InPlaceAsStated ==
    SetupReturned
        => \A p \in Paths :
              (/\ Processed(p)
               /\ ValuesClean(config, PassesOf(p, config))
               /\ \A t \in SearchStrings(LegacyPairs(config))
                            \cup SearchStrings(LateLegacyPairs(config)) :
                     ~Contains(fs0[p].content, t))
                  => fs[p].content
                        = InPlace(fs0[p].content, ClaimedOf(p, config),
                                  Len(ClaimedOf(p, config)), "")

\* C6 as amended: for a file read and written successfully, a
\* configuration whose values contain no search string, and an original
\* content in which no two search-string occurrences overlap and in which no
\* inserted value completes a search string with the text next to it, the
\* final content is the original with every occurrence of every search
\* string replaced in place by its pair's value (the placeholders by their
\* configured values, 2024 and 2025 by the year, <repository-url> in
\* README.md and docs/index.md by the repository URL) and nothing else
\* altered.
C6_InPlace ==
    SetupReturned
        => \A p \in Paths :
              (/\ Processed(p)
               /\ ValuesClean(config, PassesOf(p, config))
               /\ NoOverlap(fs0[p].content, PassesOf(p, config))
               /\ NoNewMatch(fs0[p].content, PassesOf(p, config)))
                  => fs[p].content
                        = InPlace(fs0[p].content, PassesOf(p, config),
                                  Len(PassesOf(p, config)), "")

\* a file of two placeholders, twice each, after the pass
C6_Witness ==
    /\ SetupReturned
    /\ Processed("LICENSE")
    /\ fs0["LICENSE"].content = "{PROJECT_NAME} {PACKAGE_NAME} {PROJECT_NAME} {PACKAGE_NAME}"
    /\ fs["LICENSE"].content = "Foo bar Foo bar"
    /\ ValuesClean(config, PassesOf("LICENSE", config))
    /\ NoOverlap(fs0["LICENSE"].content, PassesOf("LICENSE", config))
    /\ NoNewMatch(fs0["LICENSE"].content, PassesOf("LICENSE", config))

\* C10: every occurrence of ethereum/ethereum-protocol-specs in a file read
\* and written successfully is replaced by <github_org>/<package_name>: the
\* file holds afterwards at least as many occurrences of that value as it
\* held of the slug, and the slug's text is not left half replaced.
C10_SlugMapped ==
    SetupReturned
        => \A p \in Paths :
              (Processed(p) /\ ValuesClean(config, PassesOf(p, config)))
                  => Cardinality(Occurrences(fs[p].content,
                                    config["github_org"] \o "/" \o config["package_name"]))
                        >= Cardinality(Occurrences(fs0[p].content,
                                    "ethereum/ethereum-protocol-specs"))

=============================================================================
